---- MODULE Spec2Model ----
(***************************************************************************)
(* Model of the decoder of src/utils.py: a pair of genomes (operation      *)
(* genome, factory genome) is decoded into one schedule per machine of     *)
(* every factory, and the makespan of the whole is reported.               *)
(*                                                                         *)
(* Python lists are modelled as sequences.  Job, machine and factory       *)
(* numbers keep their 0-based Python values; a sequence is read at         *)
(* (python index + 1).  A slot is the tuple <<job, start, end>>.           *)
(***************************************************************************)
EXTENDS Integers, Sequences, FiniteSets, TLC

VARIABLES
    operation_genome,   \* argument of schedule_in_multiple_factory
    factory_genome,     \* argument of schedule_in_multiple_factory
    jobs,               \* argument: jobs[j][k][m] = time of operation k of job j on machine m
    n_machines,         \* argument
    n_factories,        \* argument
    pc,                 \* "start" | "decode" | "done" | "error"
    subgenomes,         \* utils.py:116, one sub-genome per factory
    operation_counter,  \* utils.py:81, the local of the call for each factory
    machine_schedules,  \* utils.py:82, the local of the call for each factory
    pos,                \* number of genes the loop of utils.py:84 has consumed, per factory
    schedules,          \* utils.py:121, the factory schedules returned so far
    result,             \* the returned pair <<makespan, schedules>>, <<>> before the return
    err,                \* the exception that ended the call, "" if none
    trace,              \* history: one record per committed slot, in commit order
    call,               \* the arguments of a call of insert_operation_to_schedule
                        \* made on its own, <<>> when there is none
    planned             \* what that call returned, <<>> before it returns

vars == <<operation_genome, factory_genome, jobs, n_machines, n_factories, pc,
          subgenomes, operation_counter, machine_schedules, pos, schedules,
          result, err, trace, call, planned>>

\* The variables of a call of insert_operation_to_schedule made on its own.
planner == <<call, planned>>

inputs == <<operation_genome, factory_genome, jobs, n_machines, n_factories>>

-----------------------------------------------------------------------------
(* Bounds of the model and the inputs drawn in Init.                        *)

MaxLen == 3          \* longest genome
MaxFactories == 2    \* largest n_factories

\* The sentinel of example.py:4 is int(1e+14).  It is scaled down here to stay
\* inside the integers TLC computes with; it remains far above every sum of
\* finite processing times the model can build, which is all the code uses.
INF == 100000000

\* The job tables a caller may pass, each of two jobs on two machines; they are
\* inputs chosen for the check, laid out as the table of example.py:5-14.
\* Gap table: the second operation of job 0 leaves machine 1 idle on [0,2).
JobsGap == << << <<2, 3>>, <<3, 1>> >>,
              << <<2, 2>> >> >>

\* Sentinel table: one operation with no machine, two with a single machine.
JobsSentinel == << << <<INF, INF>> >>,
                   << <<1, INF>>, <<INF, 1>> >> >>

\* Tight table: as the gap table, but the one operation of job 1 is too long
\* for the idle region and job 1 has a second operation.
JobsTight == << << <<2, 3>>, <<3, 1>> >>,
                << <<4, 3>>, <<1, 1>> >> >>

JobTables == {JobsGap, JobsSentinel, JobsTight}

\* The reference scenario of example.py:5-19.
JobsExample == << << << 7, 10,  11>>, << 2,   8, INF>> >>,
                  << << 7,  6,  10>>, << 9,   9,   7>>, <<12, 7, 13>> >>,
                  << <<17, INF,  9>>, <<14,  10, INF>>, <<10, 6,  5>> >> >>
ExampleOperationGenome == <<2, 2, 1, 0, 1, 0, 1, 2>>
ExampleFactoryGenome == <<0, 0, 0, 1, 0, 1, 0, 0>>

SeqsUpTo(S, n) == UNION {[1..k -> S] : k \in 0..n}

-----------------------------------------------------------------------------
(* Helpers for Python's lists.                                              *)

Max2(a, b) == IF a >= b THEN a ELSE b
Min2(a, b) == IF a <= b THEN a ELSE b

MaxOfSet(S) == CHOOSE x \in S : \A y \in S : y <= x
MinOfSet(S) == CHOOSE x \in S : \A y \in S : x <= y

\* list[i] raises IndexError unless -len <= i < len ...
IndexOk(i, n) == -n <= i /\ i < n
\* ... and a negative i counts from the end.
PyIndex(i, n) == IF i < 0 THEN i + n ELSE i

RECURSIVE Flatten(_)
Flatten(ss) == IF ss = <<>> THEN <<>> ELSE Head(ss) \o Flatten(Tail(ss))

-----------------------------------------------------------------------------
(* makespan, utils.py:12-19.                                                *)

\* finish_times of utils.py:13-18: 0 for an empty schedule, else schedule[-1][-1].
finish_times(scheds) ==
    [i \in 1..Len(scheds) |->
        IF Len(scheds[i]) = 0 THEN 0 ELSE scheds[i][Len(scheds[i])][3]]

\* A slip of makespan: the end of the first slot instead of the last.
makespan_first_slot(scheds) ==
    MaxOfSet({ (IF Len(scheds[i]) = 0 THEN 0 ELSE scheds[i][1][3]) : i \in 1..Len(scheds) })

\* max(finish_times); the callers guard the empty list, for which max raises.
makespan(scheds) ==
    MaxOfSet({finish_times(scheds)[i] : i \in 1..Len(scheds)})

-----------------------------------------------------------------------------
(* insert_operation_to_schedule, utils.py:22-60.                            *)

\* The idle region in front of schedule[index] (index is 1-based here):
\* it begins where the slot before ends, or at 0 in front of the first slot.
start_of_idle(schedule, index) ==
    IF index = 1 THEN 0 ELSE schedule[index - 1][3]
end_of_idle(schedule, index) == schedule[index][2]

\* A slip of the test of utils.py:44-47: any idle region that is not empty
\* is taken to be wide enough.
FitsBefore_any_width(t, ft, schedule, index) ==
    /\ end_of_idle(schedule, index) > ft
    /\ end_of_idle(schedule, index) - Max2(ft, start_of_idle(schedule, index)) > 0

\* A slip of the comparison of utils.py:47: a gap exactly as wide as the
\* operation is passed over.
FitsBefore_strict(t, ft, schedule, index) ==
    /\ end_of_idle(schedule, index) > ft
    /\ end_of_idle(schedule, index) - Max2(ft, start_of_idle(schedule, index)) > t

\* utils.py:44-47: the operation fits in front of schedule[index].
FitsBefore(t, ft, schedule, index) ==
    /\ end_of_idle(schedule, index) > ft
    /\ end_of_idle(schedule, index) - Max2(ft, start_of_idle(schedule, index)) >= t

\* Where the new slot goes (1-based): in front of the first slot the loop of
\* utils.py:41-51 finds it fits before, else after the last slot (utils.py:60).
insert_position(t, ft, schedule) ==
    LET hits == {i \in 1..Len(schedule) : FitsBefore(t, ft, schedule, i)}
    IN  IF hits # {} THEN MinOfSet(hits) ELSE Len(schedule) + 1

\* The slot built at utils.py:35-37, 45-50 or 55-59.
slot_of_operation(t, job, ft, schedule) ==
    IF Len(schedule) = 0
    THEN <<job, ft, ft + t>>
    ELSE LET i == insert_position(t, ft, schedule)
             start == IF i <= Len(schedule)
                      THEN Max2(ft, start_of_idle(schedule, i))
                      ELSE Max2(ft, schedule[Len(schedule)][3])
         IN  <<job, start, start + t>>

\* A slip of the slicing of utils.py:50: the slots from the insertion point
\* on are left out of the result.
InsertAt_drop_tail(schedule, index, slot) ==
    SubSeq(schedule, 1, index - 1) \o <<slot>>

\* utils.py:50 and 60: schedule[:index] + [slot] + schedule[index:].
InsertAt(schedule, index, slot) ==
    SubSeq(schedule, 1, index - 1) \o <<slot>> \o SubSeq(schedule, index, Len(schedule))

\* A slip of the slicing of utils.py:50: schedule[index + 1:] for
\* schedule[index:], so the new slot takes the place of the slot it goes
\* in front of.
insert_operation_to_schedule_replacing(t, job, ft, schedule) ==
    LET index == insert_position(t, ft, schedule)
    IN  SubSeq(schedule, 1, index - 1)
            \o <<slot_of_operation(t, job, ft, schedule)>>
            \o SubSeq(schedule, index + 1, Len(schedule))

insert_operation_to_schedule(t, job, ft, schedule) ==
    InsertAt(schedule, insert_position(t, ft, schedule),
             slot_of_operation(t, job, ft, schedule))

-----------------------------------------------------------------------------
(* finish_time_of_last_operation, utils.py:63-73.                           *)

\* The ends of the slots of a job in a list of machine schedules.
EndsOfJob(job, scheds) ==
    UNION { {scheds[m][i][3] : i \in {x \in 1..Len(scheds[m]) : scheds[m][x][1] = job}} :
            m \in 1..Len(scheds) }

\* A slip of the comparison of utils.py:71: end < max_end for end > max_end,
\* so that max_end stays 0.
finish_time_of_last_operation_reversed(job, scheds) ==
    MinOfSet({0} \cup EndsOfJob(job, scheds))

\* utils.py:67-73: the largest end of a slot of the job, 0 when it has none.
finish_time_of_last_operation(job, scheds) ==
    MaxOfSet({0} \cup EndsOfJob(job, scheds))

-----------------------------------------------------------------------------
(* schedule_in_single_factory, utils.py:76-107: one pass of the loop over   *)
(* the genes.                                                               *)

\* A slip of the comparison of utils.py:99: best_makespan < tmp_makespan, which
\* keeps the machine with the largest makespan.
RECURSIVE MachineLoop_reversed(_, _, _, _, _, _)
MachineLoop_reversed(m, operation, gene, finish_time, scheds, best) ==
    IF m >= Len(operation)
    THEN best
    ELSE LET schedule == insert_operation_to_schedule(operation[m + 1], gene,
                                                      finish_time, scheds[m + 1])
             tmp_makespan == makespan(<<schedule>> \o scheds)
             better == best = <<>> \/ best[1] < tmp_makespan
         IN  MachineLoop_reversed(m + 1, operation, gene, finish_time, scheds,
                         IF better THEN <<tmp_makespan, m, schedule>> ELSE best)

\* A slip of utils.py:98: the trial makespan is taken over the current
\* machine schedules, the trial schedule left out.
RECURSIVE MachineLoop_without_trial(_, _, _, _, _, _)
MachineLoop_without_trial(m, operation, gene, finish_time, scheds, best) ==
    IF m >= Len(operation)
    THEN best
    ELSE LET schedule == insert_operation_to_schedule(operation[m + 1], gene,
                                                      finish_time, scheds[m + 1])
             tmp_makespan == makespan(scheds)
             better == best = <<>> \/ best[1] > tmp_makespan
         IN  MachineLoop_without_trial(m + 1, operation, gene, finish_time, scheds,
                         IF better THEN <<tmp_makespan, m, schedule>> ELSE best)

\* The machine loop of utils.py:90-102 from machine m on (0-based), as the code
\* runs it.  best is <<>> for None, else <<best_makespan, best_machine,
\* best_schedule>>.  The loop runs over the entries of the operation, whatever
\* n_machines is.
RECURSIVE MachineLoop(_, _, _, _, _, _)
MachineLoop(m, operation, gene, finish_time, scheds, best) ==
    IF m >= Len(operation)
    THEN best
    ELSE LET schedule == insert_operation_to_schedule(operation[m + 1], gene,
                                                      finish_time, scheds[m + 1])
             tmp_makespan == makespan(<<schedule>> \o scheds)
             better == best = <<>> \/ best[1] > tmp_makespan
         IN  MachineLoop(m + 1, operation, gene, finish_time, scheds,
                         IF better THEN <<tmp_makespan, m, schedule>> ELSE best)

\* utils.py:86 raises IndexError: jobs[gene], operation_counter[gene] or
\* jobs[gene][operation_counter[gene]] is out of range.
NoSuchOperation(gene, counter) ==
    \/ ~IndexOk(gene, Len(jobs))
    \/ counter[PyIndex(gene, Len(jobs)) + 1] >= Len(jobs[PyIndex(gene, Len(jobs)) + 1])

\* utils.py:97 raises IndexError: the operation names a machine that
\* machine_schedules does not have.
NoSuchMachine(operation) == Len(operation) > n_machines

\* The factory the sequential loop of utils.py:122 is decoding (0-based).
CurrentFactory == Len(schedules)

\* The place in the zip of utils.py:117 (1-based) of the p-th gene of factory f.
ZipLen == Min2(Len(operation_genome), Len(factory_genome))
FactoryOf(i) == PyIndex(factory_genome[i], n_factories)
OriginOf(f, p) ==
    CHOOSE i \in 1..ZipLen :
        /\ FactoryOf(i) = f
        /\ Cardinality({x \in 1..i : FactoryOf(x) = f}) = p

-----------------------------------------------------------------------------
(* The state machine.                                                       *)

\* The arguments of a call: any of the small inputs ...
InputsBounded ==
    /\ jobs \in JobTables
    /\ operation_genome \in SeqsUpTo(0..Len(jobs), MaxLen)
    /\ factory_genome \in SeqsUpTo(-1..MaxFactories - 1, MaxLen)
    /\ n_factories \in 0..MaxFactories
    /\ n_machines \in {0, Len(jobs[1][1])}

\* ... or the call of example.py:21-24.
InputsExample ==
    /\ jobs = JobsExample
    /\ operation_genome = ExampleOperationGenome
    /\ factory_genome = ExampleFactoryGenome
    /\ n_factories = 2
    /\ n_machines = 3

Init ==
    /\ InputsBounded \/ InputsExample
    /\ pc = "start"
    /\ subgenomes = <<>>
    /\ operation_counter = <<>>
    /\ machine_schedules = <<>>
    /\ pos = <<>>
    /\ schedules = <<>>
    /\ result = <<>>
    /\ err = ""
    /\ trace = <<>>
    /\ call = <<>>
    /\ planned = <<>>

Raise(e) ==
    /\ pc' = "error"
    /\ err' = e
    /\ UNCHANGED <<planner, inputs, subgenomes, operation_counter, machine_schedules, pos,
                   schedules, result, trace>>

\* utils.py:117-118 from pair i of the zip on.
RECURSIVE PartitionFrom(_, _)
PartitionFrom(i, subs) ==
    IF i > ZipLen
    THEN subs
    ELSE PartitionFrom(i + 1,
            [subs EXCEPT ![FactoryOf(i) + 1] = Append(@, operation_genome[i])])

\* utils.py:116-118.  The locals every call of schedule_in_single_factory
\* starts with (utils.py:80-82) are laid out here, one set per factory.
Partition ==
    /\ pc = "start"
    /\ IF \E i \in 1..ZipLen : ~IndexOk(factory_genome[i], n_factories)
       THEN Raise("IndexError")
       ELSE /\ subgenomes' = PartitionFrom(1, [f \in 1..n_factories |-> <<>>])
            /\ operation_counter' = [f \in 1..n_factories |-> [j \in 1..Len(jobs) |-> 0]]
            /\ machine_schedules' = [f \in 1..n_factories |-> [m \in 1..n_machines |-> <<>>]]
            /\ pos' = [f \in 1..n_factories |-> 0]
            /\ pc' = "decode"
            /\ UNCHANGED <<planner, inputs, schedules, result, err, trace>>

\* One pass of the loop of utils.py:84-105 in the call for factory f.
GeneStepOf(f) ==
    LET gene == subgenomes[f + 1][pos[f + 1] + 1]
        j == PyIndex(gene, Len(jobs))
        k == operation_counter[f + 1][j + 1]
    IN  IF NoSuchOperation(gene, operation_counter[f + 1])
        THEN Raise("IndexError")
        ELSE LET operation == jobs[j + 1][k + 1]
                 finish_time == finish_time_of_last_operation(gene, machine_schedules[f + 1])
                 best == MachineLoop(0, operation, gene, finish_time,
                                     machine_schedules[f + 1], <<>>)
             IN  IF NoSuchMachine(operation)
                 THEN Raise("IndexError")
                 ELSE IF best = <<>>
                 THEN Raise("TypeError")  \* machine_schedules[None], utils.py:103
                 ELSE /\ machine_schedules' =
                            [machine_schedules EXCEPT ![f + 1][best[2] + 1] = best[3]]
                      /\ operation_counter' =
                            [operation_counter EXCEPT ![f + 1][j + 1] = @ + 1]
                      /\ pos' = [pos EXCEPT ![f + 1] = @ + 1]
                      /\ trace' = Append(trace,
                            [at |-> OriginOf(f, pos[f + 1] + 1),
                             factory |-> f,
                             machine |-> best[2],
                             job |-> gene,
                             op |-> k,
                             slot |-> slot_of_operation(operation[best[2] + 1], gene,
                                         finish_time, machine_schedules[f + 1][best[2] + 1])])
                      /\ UNCHANGED <<planner, inputs, pc, subgenomes, schedules, result, err>>

GeneStep ==
    /\ pc = "decode"
    /\ CurrentFactory < n_factories
    /\ pos[CurrentFactory + 1] < Len(subgenomes[CurrentFactory + 1])
    /\ GeneStepOf(CurrentFactory)

\* utils.py:107 and 123: the call for the current factory returns.
ReturnFactory ==
    /\ pc = "decode"
    /\ CurrentFactory < n_factories
    /\ pos[CurrentFactory + 1] = Len(subgenomes[CurrentFactory + 1])
    /\ schedules' = Append(schedules, machine_schedules[CurrentFactory + 1])
    /\ UNCHANGED <<planner, inputs, pc, subgenomes, operation_counter, machine_schedules, pos,
                   result, err, trace>>

\* utils.py:127-132.
Aggregate ==
    /\ pc = "decode"
    /\ CurrentFactory = n_factories
    /\ LET tmp == Flatten(schedules)
       IN  IF tmp = <<>>
           THEN Raise("ValueError")    \* max() of an empty list
           ELSE /\ result' = <<makespan(tmp), schedules>>
                /\ pc' = "done"
                /\ UNCHANGED <<planner, inputs, subgenomes, operation_counter, machine_schedules,
                               pos, schedules, err, trace>>

Next == Partition \/ GeneStep \/ ReturnFactory \/ Aggregate

Spec == Init /\ [][Next]_vars

-----------------------------------------------------------------------------
(* insert_operation_to_schedule called on its own (utils.py:22-60) with any *)
(* positive time, any earliest start and any start-sorted schedule free of  *)
(* overlap, up to the bounds.                                               *)

MaxSlots == 3     \* longest machine schedule passed in
Horizon == 6      \* latest end of a slot passed in, and latest earliest start
MaxTime == 3      \* longest finite processing time passed in

\* start < end for every slot and end[i] <= start[i+1] for consecutive slots.
ValidSchedule(s) ==
    /\ \A i \in 1..Len(s) : s[i][2] < s[i][3]
    /\ \A i \in 1..Len(s) - 1 : s[i][3] <= s[i + 1][2]

\* The slots a schedule passed in may hold.
SlotsUpTo(h) == {<<j, b, e>> : j \in 0..1, b \in 0..h, e \in 1..h}

\* The valid schedules of at most n slots that begin no earlier than from.
RECURSIVE SchedulesFrom(_, _)
SchedulesFrom(from, n) ==
    IF n = 0
    THEN {<<>>}
    ELSE {<<>>} \cup
         UNION {{<<x>> \o q : q \in SchedulesFrom(x[3], n - 1)} :
                x \in {y \in SlotsUpTo(Horizon) : from <= y[2] /\ y[2] < y[3]}}

ValidSchedules == SchedulesFrom(0, MaxSlots)

InitPlanner ==
    /\ call \in [time_of_operation : (1..MaxTime) \cup {INF},
                 job_of_operation : 0..1,
                 finish_time_of_previous_operation : 0..Horizon,
                 schedule : ValidSchedules]
    /\ planned = <<>>
    /\ pc = "planner"
    /\ operation_genome = <<>>
    /\ factory_genome = <<>>
    /\ jobs = <<>>
    /\ n_machines = 0
    /\ n_factories = 0
    /\ subgenomes = <<>>
    /\ operation_counter = <<>>
    /\ machine_schedules = <<>>
    /\ pos = <<>>
    /\ schedules = <<>>
    /\ result = <<>>
    /\ err = ""
    /\ trace = <<>>

Plan ==
    /\ pc = "planner"
    /\ planned = <<>>
    /\ planned' = insert_operation_to_schedule(call.time_of_operation,
                                               call.job_of_operation,
                                               call.finish_time_of_previous_operation,
                                               call.schedule)
    /\ UNCHANGED <<call, inputs, pc, subgenomes, operation_counter, machine_schedules,
                   pos, schedules, result, err, trace>>

SpecPlanner == InitPlanner /\ [][Plan]_vars

-----------------------------------------------------------------------------
(* The per-factory decodes run by independent workers, as section 5 of the  *)
(* design allows: any factory with genes left takes the next step, and the  *)
(* factory schedules are collected by factory index once all are complete.  *)

ParGeneStep ==
    /\ pc = "decode"
    /\ schedules = <<>>
    /\ \E f \in 0..n_factories - 1 :
          /\ pos[f + 1] < Len(subgenomes[f + 1])
          /\ GeneStepOf(f)

ParCollect ==
    /\ pc = "decode"
    /\ Len(schedules) < n_factories
    /\ \A f \in 1..n_factories : pos[f] = Len(subgenomes[f])
    /\ schedules' = machine_schedules
    /\ UNCHANGED <<planner, inputs, pc, subgenomes, operation_counter, machine_schedules, pos,
                   result, err, trace>>

ParNext == Partition \/ ParGeneStep \/ ParCollect \/ Aggregate

SpecPar == Init /\ [][ParNext]_vars

-----------------------------------------------------------------------------
(* schedule_in_single_factory as a function of its sub-genome,              *)
(* utils.py:76-107: the machine schedules it returns, or "error".           *)

RECURSIVE DecodeFrom(_, _, _, _)
DecodeFrom(genome, p, counter, scheds) ==
    IF p > Len(genome)
    THEN scheds
    ELSE LET gene == genome[p]
             j == PyIndex(gene, Len(jobs))
         IN  IF NoSuchOperation(gene, counter)
             THEN "error"
             ELSE LET operation == jobs[j + 1][counter[j + 1] + 1]
                      finish_time == finish_time_of_last_operation(gene, scheds)
                      best == MachineLoop(0, operation, gene, finish_time, scheds, <<>>)
                  IN  IF NoSuchMachine(operation) \/ best = <<>>
                      THEN "error"
                      ELSE DecodeFrom(genome, p + 1,
                                      [counter EXCEPT ![j + 1] = @ + 1],
                                      [scheds EXCEPT ![best[2] + 1] = best[3]])

\* [x for _ in range(n)], utils.py:81-82.
RECURSIVE Repeat(_, _)
Repeat(x, n) == IF n <= 0 THEN <<>> ELSE Append(Repeat(x, n - 1), x)

schedule_in_single_factory(genome) ==
    DecodeFrom(genome, 1, Repeat(0, Len(jobs)), Repeat(<<>>, n_machines))

-----------------------------------------------------------------------------
(* Vocabulary of the properties.                                            *)

Factories == 1..Len(machine_schedules)

\* Number of entries of the sequence g that equal v.
Occurrences(g, v) == Cardinality({i \in 1..Len(g) : g[i] = v})

\* Number of entries of g in front of place i that equal g[i].
EarlierOccurrences(g, i) == Cardinality({x \in 1..i - 1 : g[x] = g[i]})

Aligned == Len(operation_genome) = Len(factory_genome)

FactoryValuesInRange ==
    \A i \in 1..Len(factory_genome) :
        0 <= factory_genome[i] /\ factory_genome[i] < n_factories

\* Every job occurs in the operation genome exactly once per operation.
EachJobComplete ==
    /\ \A i \in 1..Len(operation_genome) : operation_genome[i] < Len(jobs)
    /\ \A j \in 1..Len(jobs) : Occurrences(operation_genome, j - 1) = Len(jobs[j])

\* The operation a trace record was resolved to at utils.py:86.
OperationOf(r) == jobs[PyIndex(r.job, Len(jobs)) + 1][r.op + 1]

AvailableMachines(operation) == {m \in 1..Len(operation) : operation[m] < INF}

\* No operation of the job table has the sentinel on every machine.
EveryOperationAvailable ==
    \A j \in 1..Len(jobs) : \A k \in 1..Len(jobs[j]) : AvailableMachines(jobs[j][k]) # {}

Returned == pc = "done"

\* The slots of the returned global schedule, as a set of ends.
ReturnedEnds ==
    UNION { UNION { {result[2][f][m][i][3] : i \in 1..Len(result[2][f][m])} :
                    m \in 1..Len(result[2][f]) } :
            f \in 1..Len(result[2]) }

ReturnedSlotCount == Len(Flatten(Flatten(result[2])))

-----------------------------------------------------------------------------
(* C1: in every state of every decode, every machine schedule of every      *)
(* factory is sorted by start time and free of overlap: each slot has       *)
(* start < end and consecutive slots have end[i] <= start[i+1]; the same    *)
(* holds of the global schedule that is returned.                           *)
C1_NoOverlap ==
    /\ \A f \in Factories : \A m \in 1..Len(machine_schedules[f]) :
          ValidSchedule(machine_schedules[f][m])
    /\ Returned =>
          \A f \in 1..Len(result[2]) : \A m \in 1..Len(result[2][f]) :
             ValidSchedule(result[2][f][m])

\* A decode has returned in which a slot was put into an idle region in front
\* of a slot committed before it on the same machine.
C1_Witness ==
    /\ Returned
    /\ \E a, b \in 1..Len(trace) :
          /\ a < b
          /\ trace[a].factory = trace[b].factory
          /\ trace[a].machine = trace[b].machine
          /\ trace[b].slot[3] <= trace[a].slot[2]

-----------------------------------------------------------------------------
(* C2: in the returned global schedule, for every job, the slot of a later  *)
(* operation of the job starts no earlier than the slot of an earlier       *)
(* operation of the job ends, wherever the two slots land.  The operations  *)
(* of a job are its occurrences in the operation genome, in order.  Stated  *)
(* for well-formed input: aligned genomes, factory values in range, every   *)
(* job complete, every operation with a machine that can perform it.        *)
C2_JobPrecedence ==
    (Returned /\ Aligned /\ FactoryValuesInRange /\ EachJobComplete
        /\ EveryOperationAvailable) =>
        \A a, b \in 1..Len(trace) :
            (trace[a].job = trace[b].job /\ trace[a].at < trace[b].at)
                => trace[b].slot[2] >= trace[a].slot[3]

(* C3: whenever a genome pair decodes, the number of slots in the returned  *)
(* global schedule equals len(operation_genome).                            *)
C3_SlotPerGene ==
    (Returned /\ EveryOperationAvailable) => ReturnedSlotCount = Len(operation_genome)

(* C4: for an operation genome in which every job j occurs exactly          *)
(* len(jobs[j]) times and an aligned factory genome, the k-th occurrence of *)
(* job j is scheduled as operation k of job j: its slot on machine m lasts  *)
(* jobs[j][k][m].                                                           *)
C4_KthOccurrenceIsKthOperation ==
    (Aligned /\ FactoryValuesInRange /\ EachJobComplete /\ EveryOperationAvailable) =>
        \A a \in 1..Len(trace) :
            LET r == trace[a]
                k == EarlierOccurrences(operation_genome, r.at)
            IN  /\ r.op = k
                /\ r.slot[3] - r.slot[2] = jobs[r.job + 1][k + 1][r.machine + 1]

(* C5: an operation that has the sentinel on all machines but one is        *)
(* committed to that one machine, whatever the earlier genes left behind.   *)
C5_SingleAvailableMachine ==
    (Aligned /\ FactoryValuesInRange) => \A a \in 1..Len(trace) :
        LET operation == OperationOf(trace[a])
        IN  Cardinality(AvailableMachines(operation)) = 1
                => trace[a].machine + 1 \in AvailableMachines(operation)

(* C6: an operation that has the sentinel on every machine is never         *)
(* committed: no slot is made for it, and no schedule is returned.          *)
C6_NoMachineIsAnError ==
    (Aligned /\ FactoryValuesInRange) =>
        \A a \in 1..Len(trace) : AvailableMachines(OperationOf(trace[a])) # {}

(* C7: genomes of different lengths are never decoded: no makespan and no   *)
(* schedule is returned for them.                                           *)
C7_LengthMismatchFails ==
    (~Aligned /\ FactoryValuesInRange /\ EveryOperationAvailable) => ~Returned

(* C8: if a job occurs in the operation genome more often than it has       *)
(* operations, no schedule is returned, whatever aligned factory genome     *)
(* distributes the occurrences.                                             *)
C8_TooManyOccurrencesFails ==
    (/\ Aligned /\ FactoryValuesInRange /\ EveryOperationAvailable
     /\ \E j \in 1..Len(jobs) : Occurrences(operation_genome, j - 1) > Len(jobs[j]))
        => ~Returned

(* C9: a factory genome with a value outside [0, n_factories) is never      *)
(* decoded, and every gene that is scheduled is scheduled in the factory    *)
(* its factory-genome value names.                                          *)
C9_FactoryIndexChecked ==
    (Aligned /\ EveryOperationAvailable) =>
        /\ ~FactoryValuesInRange => ~Returned
        /\ \A a \in 1..Len(trace) : trace[a].factory = factory_genome[trace[a].at]

(* C10: the returned makespan is the largest end time over every slot of    *)
(* every machine of every factory of the returned global schedule.          *)
C10_MakespanIsLargestEnd ==
    Returned => result[1] = MaxOfSet({0} \cup ReturnedEnds)

\* A decode has returned a schedule in which some machine holds several slots
\* and the makespan is the end of a slot that is not the first of its machine.
C10_Witness ==
    /\ Returned
    /\ \E f \in 1..Len(result[2]) : \E m \in 1..Len(result[2][f]) :
          LET s == result[2][f][m]
          IN  /\ Len(s) >= 2
              /\ s[Len(s)][3] = result[1]
              /\ s[1][3] < result[1]

-----------------------------------------------------------------------------
EmptyGenomes == Len(operation_genome) = 0 /\ Len(factory_genome) = 0

\* n_factories factory schedules of n_machines empty machine schedules each.
AllEmptySchedule == [f \in 1..n_factories |-> [m \in 1..n_machines |-> <<>>]]

(* C11: decoding an operation genome of length 0 with an empty factory      *)
(* genome never fails, and what it returns is makespan 0 with a global      *)
(* schedule of n_factories factory schedules of n_machines empty machine    *)
(* schedules each.                                                          *)
C11_EmptyGenome ==
    EmptyGenomes =>
        /\ pc # "error"
        /\ Returned => result = <<0, AllEmptySchedule>>

(* C11, the part the code keeps: with at least one factory and one machine  *)
(* the empty genome pair returns makespan 0 and the all-empty schedule.     *)
C11_EmptyGenomeWithMachines ==
    (EmptyGenomes /\ n_factories >= 1 /\ n_machines >= 1) =>
        /\ pc # "error"
        /\ Returned => result = <<0, AllEmptySchedule>>

(* C12: makespan of an empty collection of machine schedules is 0 and does  *)
(* not fail, so the call with n_factories = 0 or n_machines = 0 and empty   *)
(* genomes returns makespan 0 instead of ending in an error.                *)
C12_EmptyCollectionIsZero ==
    (EmptyGenomes /\ (n_factories = 0 \/ n_machines = 0)) =>
        /\ pc # "error"
        /\ Returned => result[1] = 0

-----------------------------------------------------------------------------
RECURSIVE SumSeq(_)
SumSeq(q) == IF q = <<>> THEN 0 ELSE Head(q) + SumSeq(Tail(q))

\* The processing times of an operation that are not the sentinel, summed.
FiniteTimes(operation) ==
    SumSeq([m \in 1..Len(operation) |-> IF operation[m] < INF THEN operation[m] ELSE 0])

\* The same, summed over the operations that were scheduled.
ScheduledFiniteTimes ==
    SumSeq([a \in 1..Len(trace) |-> FiniteTimes(OperationOf(trace[a]))])

IsExample ==
    /\ jobs = JobsExample
    /\ operation_genome = ExampleOperationGenome
    /\ factory_genome = ExampleFactoryGenome
    /\ n_factories = 2
    /\ n_machines = 3

(* C13: the reference scenario of example.py decodes without error, no      *)
(* slot is committed on a machine whose processing time is the sentinel,    *)
(* every gene gets its slot, and the makespan is above 0, below the         *)
(* sentinel and below the sum of the finite processing times of the eight   *)
(* operations.                                                              *)
C13_ReferenceScenario ==
    IsExample =>
        /\ pc # "error"
        /\ \A a \in 1..Len(trace) :
              OperationOf(trace[a])[trace[a].machine + 1] < INF
        /\ Returned =>
              /\ Len(trace) = Len(ExampleOperationGenome)
              /\ result[1] > 0
              /\ result[1] < INF
              /\ result[1] < ScheduledFiniteTimes

\* The reference scenario has been decoded to its end.
C13_Witness == IsExample /\ Returned /\ Len(trace) = Len(ExampleOperationGenome)

-----------------------------------------------------------------------------
\* The entries of the operation genome whose aligned factory-genome value is v,
\* in their order.
RECURSIVE GenesOfValueFrom(_, _)
GenesOfValueFrom(v, i) ==
    IF i > ZipLen
    THEN <<>>
    ELSE (IF factory_genome[i] = v THEN <<operation_genome[i]>> ELSE <<>>)
            \o GenesOfValueFrom(v, i + 1)
GenesOfValue(v) == GenesOfValueFrom(v, 1)

\* What the claim expects to be returned: factory f holds the single-factory
\* decode of the genes whose factory-genome value is f, and the makespan is
\* taken over these.
RECURSIVE ExpectedFrom(_)
ExpectedFrom(f) ==
    IF f >= n_factories
    THEN <<>>
    ELSE <<schedule_in_single_factory(GenesOfValue(f))>> \o ExpectedFrom(f + 1)
ExpectedSchedules == ExpectedFrom(0)

IndependentDecode ==
    Returned =>
        /\ result[2] = ExpectedSchedules
        /\ result[1] = makespan(Flatten(ExpectedSchedules))

(* C14: factories are decoded independently.  The schedule of factory f in  *)
(* the returned global schedule is the single-factory decode of the entries *)
(* of the operation genome whose aligned factory-genome value is f, in      *)
(* their order, so it depends on no gene of another factory; and the        *)
(* returned pair is this same function of the input in whatever order the   *)
(* gene steps of different factories are taken.                             *)
C14_FactoriesIndependent == IndependentDecode

(* C14, the part the code keeps: the same for every factory genome whose    *)
(* values lie in [0, n_factories); it holds of the sequential code and of   *)
(* every interleaving of the factories' gene steps.                         *)
C14_FactoriesIndependentInRange ==
    (\A i \in 1..ZipLen : 0 <= factory_genome[i]) => IndependentDecode

\* Two factories have both committed slots in one decode that returned.
C14_TwoFactoriesBusy ==
    /\ Returned
    /\ \E a, b \in 1..Len(trace) :
          /\ a < b
          /\ trace[a].factory # trace[b].factory

-----------------------------------------------------------------------------
(* The planner called on its own.                                           *)

PlannerReturned == pc = "planner" /\ planned # <<>>

\* q without its i-th slot.
RemoveAt(q, i) == SubSeq(q, 1, i - 1) \o SubSeq(q, i + 1, Len(q))

\* The i-th slot of the result is the added one: without it the result is the
\* schedule passed in, slot for slot and in the same order.
AddedAt(i) == i \in 1..Len(planned) /\ RemoveAt(planned, i) = call.schedule

\* C15: for a positive time, an earliest start >= 0 and a valid schedule, the
\* planner returns the schedule passed in with exactly one slot
\* (job, s, s + time) added at one place, s >= earliest start; every slot
\* passed in is there unchanged and in the same order, and the result is a
\* valid schedule again.
C15_InsertAddsOneSlot ==
    PlannerReturned =>
        /\ Len(planned) = Len(call.schedule) + 1
        /\ ValidSchedule(planned)
        /\ \E i \in 1..Len(planned) :
              /\ AddedAt(i)
              /\ planned[i][1] = call.job_of_operation
              /\ planned[i][2] >= call.finish_time_of_previous_operation
              /\ planned[i][3] = planned[i][2] + call.time_of_operation

\* The planner put the slot into a gap between two slots of the schedule.
C15_Witness ==
    /\ PlannerReturned
    /\ \E i \in 2..Len(call.schedule) : AddedAt(i)

\* [t, t + p) and the slot share some time.
Overlaps(t, p, slot) == t < slot[3] /\ slot[2] < t + p

\* The operation of the call may start at t.
Feasible(t) ==
    /\ t >= call.finish_time_of_previous_operation
    /\ \A i \in 1..Len(call.schedule) :
          ~Overlaps(t, call.time_of_operation, call.schedule[i])

\* The least feasible start; the end of the last slot is always feasible when
\* it is not before the earliest start.
EarliestFeasible ==
    LET ft == call.finish_time_of_previous_operation
        last == IF call.schedule = <<>> THEN 0
                ELSE call.schedule[Len(call.schedule)][3]
    IN  MinOfSet({t \in ft..Max2(ft, last) : Feasible(t)})

\* C18: the slot the planner adds starts at the least t >= earliest start for
\* which [t, t + p) overlaps no slot of the schedule; for an empty schedule
\* that is the earliest start itself.
C18_EarliestFeasibleStart ==
    PlannerReturned =>
        /\ \E i \in 1..Len(planned) :
              AddedAt(i) /\ planned[i][2] = EarliestFeasible
        /\ call.schedule = <<>> =>
              planned[1][2] = call.finish_time_of_previous_operation

\* The earliest start lies inside a gap between two slots, later than the
\* gap's beginning, an earlier gap is too narrow, and the operation goes into
\* the gap at the earliest start.
C18_Witness ==
    /\ PlannerReturned
    /\ \E i \in 2..Len(call.schedule) :
          /\ AddedAt(i)
          /\ planned[i][2] = call.finish_time_of_previous_operation
          /\ planned[i][2] > call.schedule[i - 1][3]
          /\ call.schedule[1][2] > 0
          /\ call.schedule[1][2] < call.time_of_operation

-----------------------------------------------------------------------------
(* The gene steps of the single-factory decoder.                            *)

\* The step commits a slot.
Commits == trace' # trace

\* The record of the slot the step commits.
Committed == trace'[Len(trace')]

\* The machine schedules, before the step, of the factory the step works in.
Before == machine_schedules[Committed.factory + 1]
After == machine_schedules'[Committed.factory + 1]

\* The end of the last slot of a machine schedule, 0 when it has none.
LastEnd(schedule) == IF schedule = <<>> THEN 0 ELSE schedule[Len(schedule)][3]

\* The trial schedule of machine m (1-based) for the operation of the step.
Trial(m) ==
    insert_operation_to_schedule(OperationOf(Committed)[m], Committed.job,
                                 finish_time_of_last_operation(Committed.job, Before),
                                 Before[m])

\* The overall makespan when the trial schedule takes the place of machine
\* m's schedule and every other machine keeps its own.
SubstitutedMakespan(m) ==
    MaxOfSet({LastEnd(Trial(m))} \cup {LastEnd(Before[n]) : n \in (1..Len(Before)) \ {m}})

\* The machines the specification lets the decoder try: those whose time for
\* the operation is below the sentinel.
Candidates == AvailableMachines(OperationOf(Committed))

\* chosen is the lowest-numbered machine of the set among those of least
\* substituted makespan.
LowestBest(chosen, machines) ==
    /\ chosen \in machines
    /\ \A m \in machines :
          /\ SubstitutedMakespan(m) >= SubstitutedMakespan(chosen)
          /\ m < chosen => SubstitutedMakespan(m) > SubstitutedMakespan(chosen)

\* C16: at every gene step the operation is committed to the lowest-indexed
\* candidate machine of least trial makespan: no candidate gives a strictly
\* smaller makespan and no lower-indexed candidate an equal one.
C16_LowestIndexBestCandidate ==
    [][(Commits /\ Aligned /\ FactoryValuesInRange /\ EachJobComplete)
          => LowestBest(Committed.machine + 1, Candidates)]_vars

\* The same over the machines the loop of utils.py:93 tries, which are all
\* the machines of the operation.
C16_LowestIndexBestTried ==
    [][Commits => LowestBest(Committed.machine + 1,
                             1..Len(OperationOf(Committed)))]_vars

\* The same over the candidates when every operation has one.
C16_LowestIndexBestCandidateWhenAvailable ==
    [][(Commits /\ EveryOperationAvailable)
          => LowestBest(Committed.machine + 1, Candidates)]_vars

\* The job the step's gene names, as a place (1-based) of operation_counter.
CommittedJob == PyIndex(Committed.job, Len(jobs)) + 1

\* Machine m of the step's factory gained exactly one slot and kept the others.
GainedOneSlot(m) ==
    /\ Len(After[m]) = Len(Before[m]) + 1
    /\ \E i \in 1..Len(After[m]) : RemoveAt(After[m], i) = Before[m]

\* C17: at every gene step every slot committed before is still on its
\* machine with the same job, start and end; exactly one machine schedule
\* gains exactly one slot and every other one is unchanged; only the counter
\* of the job of the gene changes, by exactly +1.
C17_ForwardMonotonic ==
    [][Commits =>
          LET f == Committed.factory + 1
          IN  /\ Len(After) = Len(Before)
              /\ \E m \in 1..Len(Before) :
                    /\ GainedOneSlot(m)
                    /\ \A n \in (1..Len(Before)) \ {m} : After[n] = Before[n]
              /\ \A g \in Factories \ {f} :
                    /\ machine_schedules'[g] = machine_schedules[g]
                    /\ operation_counter'[g] = operation_counter[g]
              /\ Len(operation_counter'[f]) = Len(operation_counter[f])
              /\ \A j \in 1..Len(operation_counter[f]) :
                    operation_counter'[f][j] =
                        operation_counter[f][j] + (IF j = CommittedJob THEN 1 ELSE 0)
       ]_vars

\* The last slot committed went in front of a slot committed earlier on the
\* same machine, for a job other than the first, whose counter went up to 1.
C17_Witness ==
    /\ trace # <<>>
    /\ LET r == trace[Len(trace)]
           q == machine_schedules[r.factory + 1][r.machine + 1]
       IN  /\ Len(q) >= 2
           /\ q[1] = r.slot
           /\ r.job = 1
           /\ operation_counter[r.factory + 1][2] = 1

-----------------------------------------------------------------------------
(* The trial makespan of utils.py:98.                                       *)

\* The decode of factory f (1-based) has a gene to process next.
GenePending(f) == pc = "decode" /\ pos[f] < Len(subgenomes[f])

PendingGene(f) == subgenomes[f][pos[f] + 1]

\* The pending gene of factory f resolves to an operation whose machines exist.
OperationPending(f) ==
    /\ GenePending(f)
    /\ ~NoSuchOperation(PendingGene(f), operation_counter[f])
    /\ ~NoSuchMachine(jobs[PendingGene(f) + 1][operation_counter[f][PendingGene(f) + 1] + 1])

PendingOperation(f) == jobs[PendingGene(f) + 1][operation_counter[f][PendingGene(f) + 1] + 1]

\* The trial schedule of machine m (1-based) in factory f for the pending
\* operation.
PendingTrial(f, m) ==
    insert_operation_to_schedule(PendingOperation(f)[m], PendingGene(f),
        finish_time_of_last_operation(PendingGene(f), machine_schedules[f]),
        machine_schedules[f][m])

\* utils.py:98: makespan([schedule] + machine_schedules).
CodeTrialMakespan(f, m) == makespan(<<PendingTrial(f, m)>> \o machine_schedules[f])

\* The makespan of the machine schedules of factory f with machine m's
\* schedule replaced by the trial schedule.
MakespanUnderSubstitution(f, m) ==
    MaxOfSet({LastEnd(PendingTrial(f, m))} \cup
             {LastEnd(machine_schedules[f][n]) : n \in (1..Len(machine_schedules[f])) \ {m}})

\* The lowest-numbered machine (1-based) of least makespan under substitution.
ChoiceUnderSubstitution(f) ==
    LET ms == 1..Len(PendingOperation(f))
        least == MinOfSet({MakespanUnderSubstitution(f, m) : m \in ms})
    IN  MinOfSet({m \in ms : MakespanUnderSubstitution(f, m) = least})

\* The machine (1-based) the loop of utils.py:93-102 ends with.
CodeChoice(f) ==
    MachineLoop(0, PendingOperation(f), PendingGene(f),
                finish_time_of_last_operation(PendingGene(f), machine_schedules[f]),
                machine_schedules[f], <<>>)[2] + 1

\* C19: in every reachable decoder state and for every machine m, the trial
\* makespan makespan([trial] + machine_schedules) equals the makespan of the
\* machine schedules with m's schedule replaced by the trial schedule, and
\* the machine the code chooses is the one chosen under substitution.
C19_TrialMakespanIsSubstitution ==
    \A f \in Factories :
        OperationPending(f) =>
            /\ \A m \in 1..Len(PendingOperation(f)) :
                  CodeTrialMakespan(f, m) = MakespanUnderSubstitution(f, m)
            /\ CodeChoice(f) = ChoiceUnderSubstitution(f)

\* A gene is pending whose trial on one machine goes into a gap, in front of
\* that machine's last slot, and whose trial on another machine, not empty
\* either, goes behind the last slot; the code chooses the second machine.
C19_Witness ==
    \E f \in Factories :
        /\ OperationPending(f)
        /\ \E m, n \in 1..Len(PendingOperation(f)) :
              /\ machine_schedules[f][m] # <<>>
              /\ LastEnd(PendingTrial(f, m)) = LastEnd(machine_schedules[f][m])
              /\ machine_schedules[f][n] # <<>>
              /\ LastEnd(PendingTrial(f, n)) > LastEnd(machine_schedules[f][n])
              /\ CodeChoice(f) = 2

-----------------------------------------------------------------------------
(* The slots of one job inside one factory.                                 *)

\* Records a and b of the trace are of the same job in the same factory, a
\* committed before b.
SameJobSameFactory(a, b) ==
    /\ a < b
    /\ trace[a].factory = trace[b].factory
    /\ trace[a].job = trace[b].job

\* C20: within one factory each slot committed for a gene of job j starts no
\* earlier than the largest end among the slots of job j committed before it
\* on any machine of that factory, so the slots of one job in one factory,
\* in commit order, never overlap and satisfy start[k+1] >= end[k].
C20_JobOrderWithinFactory ==
    \A a, b \in 1..Len(trace) :
        SameJobSameFactory(a, b) => trace[b].slot[2] >= trace[a].slot[3]

\* A job's second slot in a factory is on another machine than its first and
\* starts exactly at the end of the first, with its machine idle before it.
C20_Witness ==
    \E a, b \in 1..Len(trace) :
        /\ SameJobSameFactory(a, b)
        /\ trace[a].machine # trace[b].machine
        /\ trace[b].slot[2] = trace[a].slot[3]
        /\ machine_schedules[trace[b].factory + 1][trace[b].machine + 1][1] = trace[b].slot

====
